---- MODULE Spec2Model ----
(***************************************************************************)
(* Model of API-FinanceApp:                                                *)
(*   - calculateNextExecution (routes/recurring.js), computed on the       *)
(*     JavaScript Date setters it calls, with their overflow rules;        *)
(*   - POST /recurring and POST /recurring/execute against the             *)
(*     RecurringTransaction and Transaction collections;                   *)
(*   - the Budget model and routes, and the transaction routes that keep   *)
(*     Budget.spent;                                                       *)
(*   - the Goal model and routes, and the month count of the legacy goals  *)
(*     routes;                                                             *)
(*   - PUT /recurring/:id, and requests in flight on POST /transactions,   *)
(*     POST /recurring/execute and POST /goals/:id/contribute.             *)
(* A date is a day number (days since 1970-01-01) of the server's local    *)
(* calendar; months are 0-based, as in JavaScript.                         *)
(***************************************************************************)
EXTENDS Integers, Sequences, FiniteSets, TLC

VARIABLES
    calcDate,       \* SpecCalc: currentDate handed to calculateNextExecution
    calcAnchor,     \* SpecCalc: [frequency, dayOfWeek, dayOfMonth, dayOfYear]
    calcNext,       \* SpecCalc: next, the copy of currentDate that is returned
    calcIter,       \* SpecCalc: number of applications so far (0: not called)
    schema,         \* which models/Transaction.js schema is loaded
    now,            \* wall clock read by new Date()
    recurrings,     \* RecurringTransaction collection: id -> document or Absent
    transactions,   \* Transaction collection: set of persisted documents
    passLog,        \* history: the steps of the latest execute pass
    passNow,        \* history: the clock value of the latest execute pass
    passUser,       \* history: the user of the latest execute pass
    passBefore,     \* history: the collection as the latest pass found it
    budgets,        \* Budget collection: id -> document
    requests,       \* the requests in flight of SpecRace, SpecExecuteRace
                    \* and SpecContributeRace: id -> position and memory
    goals,          \* Goal collection: id -> document
    goalLog,        \* history: the latest goal operations, oldest first
    goalReply,      \* message of the latest response of a goal route
    paceNow,        \* SpecMonths: the clock the legacy goal routes read
    paceTarget,     \* SpecMonths: the targetDate of the request
    paceCreate,     \* SpecMonths: monthsDiff as POST /goals computed it
    paceUpdate      \* SpecMonths: monthsDiff as PUT /goals/:id computed it

vars == <<calcDate, calcAnchor, calcNext, calcIter, schema, now, recurrings,
          transactions, passLog, passNow, passUser, passBefore, budgets,
          requests, goals, goalLog, goalReply, paceNow, paceTarget,
          paceCreate, paceUpdate>>

calcVars == <<calcDate, calcAnchor, calcNext, calcIter>>
storeVars == <<schema, now, recurrings, transactions, passLog, passNow,
               passUser, passBefore, budgets>>

recurringVars == <<recurrings, passLog, passNow, passUser, passBefore>>

goalVars == <<goals, goalLog, goalReply>>

paceVars == <<paceNow, paceTarget, paceCreate, paceUpdate>>

nonStoreVars == <<calcDate, calcAnchor, calcNext, calcIter, requests, goals,
                  goalLog, goalReply, paceNow, paceTarget, paceCreate,
                  paceUpdate>>

(***************************************************************************)
(* Bounds                                                                  *)
(***************************************************************************)
MaxIter == 2        \* applications of calculateNextExecution in SpecCalc
MaxTx == 2          \* cap on the Transaction collection explored

\* Contributions pushed to one goal.
MaxContributions == 2

(***************************************************************************)
(* JavaScript Date on day numbers                                          *)
(***************************************************************************)
\* An optional value: Unset for undefined (a document without the field).
Unset == <<>>
Some(v) == <<v>>

Min(a, b) == IF a <= b THEN a ELSE b

\* Day number of the civil date y / m1 / d, m1 in 1..12.
DaysOfEra(yy, mp, d) ==
    (yy \div 400) * 146097 + (yy % 400) * 365 + (yy % 400) \div 4
        - (yy % 400) \div 100 + (153 * mp + 2) \div 5 + d - 1

DaysFromCivil(y, m1, d) ==
    DaysOfEra(IF m1 <= 2 THEN y - 1 ELSE y,
              IF m1 > 2 THEN m1 - 3 ELSE m1 + 9, d) - 719468

\* The civil date of a day number, month 0-based as Date.getMonth(). The
\* steps are operators so that each intermediate value is written once:
\* era and day of era, year of era, day of year, month counted from March.
CivilOf(era, yoe, doy, mp) ==
    [ year  |-> yoe + era * 400 + (IF mp >= 10 THEN 1 ELSE 0),
      month |-> IF mp < 10 THEN mp + 2 ELSE mp - 10,
      date  |-> doy - (153 * mp + 2) \div 5 + 1 ]

CivilOfDoy(era, yoe, doy) == CivilOf(era, yoe, doy, (5 * doy + 2) \div 153)

CivilOfYoe(era, doe, yoe) ==
    CivilOfDoy(era, yoe, doe - (365 * yoe + yoe \div 4 - yoe \div 100))

CivilOfDoe(era, doe) ==
    CivilOfYoe(era, doe,
               (doe - doe \div 1460 + doe \div 36524 - doe \div 146096) \div 365)

CivilOfShifted(zz) == CivilOfDoe(zz \div 146097, zz % 146097)

CivilFromDays(z) == CivilOfShifted(z + 719468)

getFullYear(t) == CivilFromDays(t).year
getMonth(t) == CivilFromDays(t).month
getDate(t) == CivilFromDays(t).date
getDay(t) == (t + 4) % 7

\* new Date(year, month, date): month and date outside their range carry over.
MakeDate(year, month, date) ==
    DaysFromCivil(year + month \div 12, (month % 12) + 1, 1) + date - 1

\* The setters replace one field of the civil date c and normalise.
WithDate(c, date) == MakeDate(c.year, c.month, date)
WithMonth(c, month) == MakeDate(c.year, month, c.date)
WithFullYear(c, year) == MakeDate(year, c.month, c.date)

setDate(t, date) == WithDate(CivilFromDays(t), date)
setMonth(t, month) == WithMonth(CivilFromDays(t), month)
setFullYear(t, year) == WithFullYear(CivilFromDays(t), year)

(***************************************************************************)
(* Strings are sequences of one-character strings.                         *)
(***************************************************************************)
Digits == <<"0", "1", "2", "3", "4", "5", "6", "7", "8", "9">>

IsDigit(c) == \E i \in 1..10 : Digits[i] = c

DigitValue(c) == (CHOOSE i \in 1..10 : Digits[i] = c) - 1

\* String.prototype.split on a one-character separator.
RECURSIVE SplitFrom(_, _, _, _)
SplitFrom(s, sep, i, cur) ==
    IF i > Len(s) THEN <<cur>>
    ELSE IF s[i] = sep THEN <<cur>> \o SplitFrom(s, sep, i + 1, <<>>)
    ELSE SplitFrom(s, sep, i + 1, Append(cur, s[i]))

Split(s, sep) == SplitFrom(s, sep, 1, <<>>)

\* parseInt: the value of the longest prefix of decimal digits. The anchors
\* of the model all start with a digit, so NaN does not arise.
RECURSIVE LeadingDigits(_)
LeadingDigits(s) ==
    IF s = <<>> \/ ~IsDigit(Head(s)) THEN <<>>
    ELSE <<Head(s)>> \o LeadingDigits(Tail(s))

RECURSIVE DigitsValue(_)
DigitsValue(ds) ==
    IF ds = <<>> THEN 0
    ELSE 10 * DigitsValue(SubSeq(ds, 1, Len(ds) - 1)) + DigitValue(ds[Len(ds)])

parseInt(s) == DigitsValue(LeadingDigits(s))

(***************************************************************************)
(* calculateNextExecution. The anchor a frequency reads is always given in *)
(* the model (an undefined one would make the date NaN).                   *)
(***************************************************************************)
\* Mutants of WeeklyDays: without "|| 7", and with the operands swapped.
WeeklyDaysNoWrap(dayOfWeek, day) == (dayOfWeek + 7 - day) % 7

WeeklyDaysSwapped(dayOfWeek, day) ==
    LET daysUntilTarget == (day + 7 - dayOfWeek) % 7
    IN  IF daysUntilTarget = 0 THEN 7 ELSE daysUntilTarget

\* (daysUntilTarget || 7) with daysUntilTarget = (dayOfWeek + 7 - getDay()) % 7
WeeklyDays(dayOfWeek, day) ==
    LET daysUntilTarget == (dayOfWeek + 7 - day) % 7
    IN  IF daysUntilTarget = 0 THEN 7 ELSE daysUntilTarget

NextDaily(currentDate) == setDate(currentDate, getDate(currentDate) + 1)

NextWeekly(currentDate, dayOfWeek) ==
    setDate(currentDate,
            getDate(currentDate) + WeeklyDays(dayOfWeek, getDay(currentDate)))

\* new Date(next.getFullYear(), next.getMonth() + 1, 0).getDate()
LastDateOfMonth(c) == getDate(MakeDate(c.year, c.month + 1, 0))

\* next.setDate(Math.min(dayOfMonth, ...)) on next after its setMonth
ClampDate(c, dayOfMonth) == WithDate(c, Min(dayOfMonth, LastDateOfMonth(c)))

NextMonthly(currentDate, dayOfMonth) ==
    ClampDate(CivilFromDays(setMonth(currentDate, getMonth(currentDate) + 1)),
              dayOfMonth)

YearlyFrom(currentDate, month, day) ==
    setDate(setMonth(setFullYear(currentDate, getFullYear(currentDate) + 1),
                     parseInt(month) - 1),
            parseInt(day))

\* const [month, day] = dayOfYear.split('-')
FirstTwo(parts, currentDate) == YearlyFrom(currentDate, parts[1], parts[2])

NextYearly(currentDate, dayOfYear) == FirstTwo(Split(dayOfYear, "-"), currentDate)

calculateNextExecution(currentDate, frequency, dayOfWeek, dayOfMonth, dayOfYear) ==
    CASE frequency = "daily"   -> NextDaily(currentDate)
      [] frequency = "weekly"  -> NextWeekly(currentDate, dayOfWeek[1])
      [] frequency = "monthly" -> NextMonthly(currentDate, dayOfMonth[1])
      [] frequency = "yearly"  -> NextYearly(currentDate, dayOfYear[1])
      [] OTHER                 -> currentDate

(***************************************************************************)
(* SpecCalc: calculateNextExecution applied to bounded inputs, and again   *)
(* to its own result as the execute loop does (recurring.js 143-152).      *)
(***************************************************************************)
Str(a, b, c, d) == <<a, b, "-", c, d>>

CalcDates == MakeDate(2023, 0, 1) .. MakeDate(2024, 11, 31)

YearlyAnchors ==
    { Str("0","1","3","1"), Str("0","2","1","5"), Str("0","2","2","8"),
      Str("0","2","2","9"), Str("0","4","3","0"), Str("0","6","1","0"),
      Str("1","2","0","1"), Str("1","2","3","1") }

Anchor(f, w, m, y) ==
    [frequency |-> f, dayOfWeek |-> w, dayOfMonth |-> m, dayOfYear |-> y]

CalcAnchors ==
    { Anchor("daily", Unset, Unset, Unset) }
    \cup { Anchor("weekly", Some(w), Unset, Unset) : w \in 0..6 }
    \cup { Anchor("monthly", Unset, Some(m), Unset) : m \in 1..31 }
    \cup { Anchor("yearly", Unset, Unset, Some(y)) : y \in YearlyAnchors }

NextOf(date, a) ==
    calculateNextExecution(date, a.frequency, a.dayOfWeek, a.dayOfMonth, a.dayOfYear)

CalcCall ==
    /\ calcIter = 0
    /\ calcNext' = NextOf(calcDate, calcAnchor)
    /\ calcIter' = 1
    /\ UNCHANGED <<calcDate, calcAnchor>>

CalcAgain ==
    /\ calcIter > 0
    /\ calcIter < MaxIter
    /\ calcDate' = calcNext
    /\ calcNext' = NextOf(calcNext, calcAnchor)
    /\ calcIter' = calcIter + 1
    /\ UNCHANGED calcAnchor

(***************************************************************************)
(* The collections                                                         *)
(***************************************************************************)
Users == {"u1", "u2"}
RecurringIds == {"r1", "r2"}

\* models/Transaction.js holds two schemas; either may be the one loaded.
Schemas == {"legacy", "canonical"}

\* The paths of the Transaction schema that new Transaction({...}) can fill
\* from the fields execute passes; strict mode drops every other field.
SchemaPaths(s) ==
    IF s = "legacy"
    THEN {"userId", "type", "amount", "category", "description", "date",
          "isRecurring", "recurringFrequency", "recurringEndDate",
          "recurringParentId"}
    ELSE {"description", "amount", "type", "categoryId", "userId", "date",
          "notes", "tags", "isRecurring", "recurringConfig",
          "parentTransactionId", "paymentMethod", "status", "isDeleted",
          "deletedAt"}

Cast(s, path, value) == IF path \in SchemaPaths(s) THEN Some(value) ELSE Unset

\* new Transaction({...}) of execute: category is passed and categoryId is
\* not; status and isDeleted take the canonical defaults. origin is a
\* history field, not stored.
NewTransaction(s, id, recurring) ==
    [ userId             |-> recurring.userId,
      type               |-> recurring.type,
      amount             |-> recurring.amount,
      date               |-> recurring.nextExecution,
      isRecurring        |-> TRUE,
      recurringId        |-> Cast(s, "recurringId", id),
      recurringFrequency |-> Unset,
      category           |-> Cast(s, "category", recurring.category),
      categoryId         |-> Unset,
      status             |-> Cast(s, "status", "completed"),
      isDeleted          |-> Cast(s, "isDeleted", FALSE),
      origin             |-> id ]

\* Schema validation run by transaction.save(); amounts are whole units.
ValidTransaction(s, tx) ==
    IF s = "legacy"
    THEN /\ tx.amount >= 0
         /\ (tx.isRecurring => tx.recurringFrequency # Unset)
    ELSE tx.amount >= 1

(***************************************************************************)
(* POST /recurring                                                         *)
(***************************************************************************)
StartNow == MakeDate(2024, 0, 31)

NowPoints == { MakeDate(2024, 1, 1), MakeDate(2024, 2, 1), MakeDate(2025, 3, 1) }

Daily == Anchor("daily", Unset, Unset, Unset)
Weekly == Anchor("weekly", Some(3), Unset, Unset)
Monthly == Anchor("monthly", Unset, Some(31), Unset)

\* Request bodies: the daily, weekly and monthly anchors; maxExecutions on
\* the daily and monthly ones; endDate on the daily one; and one body whose
\* amount the canonical Transaction schema rejects. (The yearly anchor is
\* due a year later; SpecCalc covers it.)
Body(amount, anchor, endDate, maxExecutions) ==
    [ type          |-> "expense",
      amount        |-> amount,
      category      |-> "c1",
      anchor        |-> anchor,
      startDate     |-> MakeDate(2024, 0, 31),
      endDate       |-> endDate,
      maxExecutions |-> maxExecutions ]

CreateBodies ==
    { Body(100, Daily, Unset, Unset),
      Body(100, Daily, Unset, Some(1)),
      Body(100, Daily, Some(MakeDate(2024, 1, 2)), Unset),
      Body(100, Weekly, Unset, Unset),
      Body(100, Monthly, Unset, Some(2)),
      Body(0, Daily, Unset, Unset) }

NewRecurring(user, body) ==
    [ userId         |-> user,
      type           |-> body.type,
      amount         |-> body.amount,
      category       |-> body.category,
      frequency      |-> body.anchor.frequency,
      dayOfWeek      |-> body.anchor.dayOfWeek,
      dayOfMonth     |-> body.anchor.dayOfMonth,
      dayOfYear      |-> body.anchor.dayOfYear,
      startDate      |-> body.startDate,
      endDate        |-> body.endDate,
      isActive       |-> TRUE,
      nextExecution  |-> NextOf(body.startDate, body.anchor),
      lastExecution  |-> Unset,
      executionCount |-> 0,
      maxExecutions  |-> body.maxExecutions ]

\* Ids are assigned in order: r2 is the second document created.
Create(user, id, body) ==
    /\ id \notin DOMAIN recurrings
    /\ (id = "r2" => "r1" \in DOMAIN recurrings)
    /\ recurrings' = recurrings @@ (id :> NewRecurring(user, body))
    /\ UNCHANGED <<schema, now, transactions, passLog, passNow, passUser,
                   passBefore, budgets>>

(***************************************************************************)
(* PUT /recurring/:id                                                      *)
(***************************************************************************)
\* Request bodies: a new amount, or a userId.
RecurringPatch(amount, userId) == [ amount |-> amount, userId |-> userId ]

RecurringPatches ==
    { RecurringPatch(Some(50), Unset) } \cup
    { RecurringPatch(Unset, Some(user)) : user \in Users }

\* The update document req.body applied by findOneAndUpdate.
Patched(recurring, patch) ==
    [recurring EXCEPT
        !.amount = IF patch.amount = Unset THEN @ ELSE patch.amount[1],
        !.userId = IF patch.userId = Unset THEN @ ELSE patch.userId[1]]

\* findOneAndUpdate({_id, userId: req.user._id}, req.body); 404 when the
\* filter finds nothing.
RecurringUpdate(user, id, patch) ==
    /\ id \in DOMAIN recurrings
    /\ recurrings[id].userId = user
    /\ recurrings' = [recurrings EXCEPT ![id] = Patched(@, patch)]
    /\ UNCHANGED <<schema, now, transactions, passLog, passNow, passUser,
                   passBefore, budgets>>

(***************************************************************************)
(* POST /recurring/execute                                                 *)
(***************************************************************************)
EndDateClause(d, t) == d.endDate = Unset \/ d.endDate[1] >= t

MaxExecutionsClause(d) ==
    d.maxExecutions = Unset \/ d.executionCount < d.maxExecutions[1]

\* The filter object has two $or keys; the second replaces the first, so
\* the endDate clause is not part of the query.
ExecuteFilter(d, user, t) ==
    /\ d.userId = user
    /\ d.isActive
    /\ d.nextExecution <= t
    /\ MaxExecutionsClause(d)

Pending(recs, user, t) ==
    { id \in DOMAIN recs : ExecuteFilter(recs[id], user, t) }

\* The orders in which find() may return the pending definitions.
Orders(S) ==
    { o \in [1..Cardinality(S) -> S] : \A i, j \in DOMAIN o : i # j => o[i] # o[j] }

\* Mutant of Advanced: the maxExecutions test is off by one.
AdvancedOffByOne(recurring, nextExecution, executionCount) ==
    [recurring EXCEPT
        !.lastExecution  = Some(recurring.nextExecution),
        !.nextExecution  = nextExecution,
        !.executionCount = executionCount,
        !.isActive       =
            IF \/ /\ recurring.maxExecutions # Unset
                  /\ recurring.maxExecutions[1] # 0
                  /\ executionCount > recurring.maxExecutions[1]
               \/ /\ recurring.endDate # Unset
                  /\ nextExecution > recurring.endDate[1]
            THEN FALSE ELSE @]

\* Lines 151-162: the assignments to the definition held in memory, given
\* the computed nextExecution and the incremented executionCount
\* ("recurring.maxExecutions &&" is false for an unset or zero cap).
Advanced(recurring, nextExecution, executionCount) ==
    [recurring EXCEPT
        !.lastExecution  = Some(recurring.nextExecution),
        !.nextExecution  = nextExecution,
        !.executionCount = executionCount,
        !.isActive       =
            IF \/ /\ recurring.maxExecutions # Unset
                  /\ recurring.maxExecutions[1] # 0
                  /\ executionCount >= recurring.maxExecutions[1]
               \/ /\ recurring.endDate # Unset
                  /\ nextExecution > recurring.endDate[1]
            THEN FALSE ELSE @]

\* Mutant of AdvanceRecurring: executionCount is not incremented.
AdvanceRecurringKeepsCount(recurring) ==
    Advanced(recurring,
             calculateNextExecution(recurring.nextExecution, recurring.frequency,
                                    recurring.dayOfWeek, recurring.dayOfMonth,
                                    recurring.dayOfYear),
             recurring.executionCount)

\* Lines 143-162: the update of the definition held in memory.
AdvanceRecurring(recurring) ==
    Advanced(recurring,
             calculateNextExecution(recurring.nextExecution, recurring.frequency,
                                    recurring.dayOfWeek, recurring.dayOfMonth,
                                    recurring.dayOfYear),
             recurring.executionCount + 1)

NoFault == <<0, "none">>

Faults(n) == {NoFault} \cup ((1..n) \X {"transaction.save", "recurring.save"})

\* Mutant of ExecuteStep: the definition is advanced and saved before the
\* transaction is saved.
ExecuteStepAdvanceFirst(s, id, recurring, txFault, recFault) ==
    LET transaction == NewTransaction(s, id, recurring)
    IN  IF recFault
        THEN [doc |-> recurring, saved |-> <<>>,
              outcome |-> "recurring.save failed"]
        ELSE IF ~ValidTransaction(s, transaction) \/ txFault
        THEN [doc |-> AdvanceRecurring(recurring), saved |-> <<>>,
              outcome |-> "transaction.save failed"]
        ELSE [doc |-> AdvanceRecurring(recurring), saved |-> <<transaction>>,
              outcome |-> "ok"]

\* One iteration of the loop (lines 126-165) on the definition found as
\* recurring: what the two saves leave persisted, and whether it threw.
ExecuteStep(s, id, recurring, txFault, recFault) ==
    LET transaction == NewTransaction(s, id, recurring)
    IN  IF ~ValidTransaction(s, transaction) \/ txFault
        THEN [doc |-> recurring, saved |-> <<>>,
              outcome |-> "transaction.save failed"]
        ELSE IF recFault
        THEN [doc |-> recurring, saved |-> <<transaction>>,
              outcome |-> "recurring.save failed"]
        ELSE [doc |-> AdvanceRecurring(recurring), saved |-> <<transaction>>,
              outcome |-> "ok"]

\* The loop over the find() result held in memory (recs as find() read it);
\* the first throw ends the pass in the catch. Every iteration before the
\* last one run saved its transaction, so the saved ones come first. The
\* result is <<RecurringTransaction collection, Transaction collection, log>>.
RunPass(s, order, fault, recs, txs) ==
    LET StepAt(i) == ExecuteStep(s, order[i], recs[order[i]],
                                 fault = <<i, "transaction.save">>,
                                 fault = <<i, "recurring.save">>)
        thrown == { i \in DOMAIN order : StepAt(i).outcome # "ok" }
        last   == IF thrown = {} THEN Len(order)
                  ELSE CHOOSE i \in thrown : \A j \in thrown : i <= j
        saved  == { i \in 1..last : StepAt(i).saved # <<>> }
    IN  << [id \in DOMAIN recs |->
               IF \E i \in 1..last : order[i] = id
               THEN StepAt(CHOOSE i \in 1..last : order[i] = id).doc
               ELSE recs[id]],
           txs \o [i \in 1..Cardinality(saved) |-> StepAt(i).saved[1]],
           [i \in 1..last |->
               [id |-> order[i], outcome |-> StepAt(i).outcome,
                tx |-> IF i \in saved THEN Len(txs) + i ELSE 0]] >>

\* executionCount grows with the collection, so MaxTx bounds it as well.
Execute(user) ==
    LET pending == Pending(recurrings, user, now)
    IN  /\ Len(transactions) + Cardinality(pending) <= MaxTx
        /\ \E order \in Orders(pending), fault \in Faults(Cardinality(pending)) :
              LET r == RunPass(schema, order, fault, recurrings, transactions)
              IN  /\ recurrings' = r[1]
                  /\ transactions' = r[2]
                  /\ passLog' = r[3]
        /\ passNow' = now
        /\ passUser' = user
        /\ passBefore' = recurrings
        /\ UNCHANGED <<schema, now, budgets>>

\* Time passes between requests.
Tick ==
    /\ \E t \in NowPoints : t > now /\ now' = t
    /\ UNCHANGED <<schema, recurrings, transactions, passLog, passNow,
                   passUser, passBefore, budgets>>

(***************************************************************************)
(* Budgets (models/Budget.js, routes/budgets.js)                           *)
(***************************************************************************)
BudgetIds == {"b1", "b2"}

\* The requests of the budget and transaction routes come from one
\* authenticated user; every query of these routes is scoped by userId.
Owner == "u1"

\* Mutant of SpentMatch: the upper end of the window is exclusive.
SpentMatchOpenEnd(budget, tx) ==
    /\ tx.userId = budget.userId
    /\ tx.categoryId = Some(budget.categoryId)
    /\ tx.type = "expense"
    /\ tx.status = Some("completed")
    /\ tx.isDeleted # Some(TRUE)
    /\ tx.date >= budget.startDate
    /\ tx.date < budget.endDate

\* The $match stage of calculateSpent.
SpentMatch(budget, tx) ==
    /\ tx.userId = budget.userId
    /\ tx.categoryId = Some(budget.categoryId)
    /\ tx.type = "expense"
    /\ tx.status = Some("completed")
    /\ tx.isDeleted # Some(TRUE)
    /\ tx.date >= budget.startDate
    /\ tx.date <= budget.endDate

\* The $group stage: $sum of amount over the matched documents from i on.
RECURSIVE SumAmounts(_, _, _)
SumAmounts(budget, txs, i) ==
    IF i > Len(txs) THEN 0
    ELSE (IF SpentMatch(budget, txs[i]) THEN txs[i].amount ELSE 0)
         + SumAmounts(budget, txs, i + 1)

\* budget.calculateSpent(): the value assigned to this.spent (not saved).
calculateSpent(budget, txs) ==
    IF \E i \in DOMAIN txs : SpentMatch(budget, txs[i])
    THEN SumAmounts(budget, txs, 1)
    ELSE 0

\* pre('save') of the Budget schema.
BudgetPreSave(budget) == budget.startDate < budget.endDate

\* Request bodies of POST /budgets: the month of January 2024 with and
\* without autoRenew, and the year 2024.
BudgetBody(startDate, endDate, autoRenew) ==
    [ categoryId     |-> "c1",
      amount         |-> 100,
      alertThreshold |-> 80,
      startDate      |-> startDate,
      endDate        |-> endDate,
      autoRenew      |-> autoRenew ]

JanuaryBudgets ==
    { BudgetBody(MakeDate(2024, 0, 1), MakeDate(2024, 0, 31), TRUE),
      BudgetBody(MakeDate(2024, 0, 1), MakeDate(2024, 0, 31), FALSE) }

YearBudget == BudgetBody(MakeDate(2024, 0, 1), MakeDate(2024, 11, 31), FALSE)

\* new Budget({...req.body, userId}) with the schema defaults.
NewBudget(user, body) ==
    [ userId         |-> user,
      categoryId     |-> body.categoryId,
      amount         |-> body.amount,
      alertThreshold |-> body.alertThreshold,
      startDate      |-> body.startDate,
      endDate        |-> body.endDate,
      spent          |-> 0,
      alertSent      |-> FALSE,
      isActive       |-> TRUE,
      autoRenew      |-> body.autoRenew ]

\* The existingBudget query of POST /budgets.
Overlaps(budget, user, body) ==
    /\ budget.userId = user
    /\ budget.categoryId = body.categoryId
    /\ budget.isActive
    /\ budget.startDate <= body.endDate
    /\ budget.endDate >= body.startDate

\* The next unused _id; ids are assigned in order.
FreshBudgetId(bs) ==
    IF "b1" \notin DOMAIN bs THEN "b1" ELSE "b2"

Spending(budget, spent) == [budget EXCEPT !.spent = spent]

\* POST /budgets: 400 on an overlapping active budget, else calculateSpent
\* and save.
BudgetCreate(user, body) ==
    /\ DOMAIN budgets # BudgetIds
    /\ ~\E id \in DOMAIN budgets : Overlaps(budgets[id], user, body)
    /\ BudgetPreSave(NewBudget(user, body))
    /\ budgets' = budgets @@
           (FreshBudgetId(budgets) :>
               Spending(NewBudget(user, body),
                        calculateSpent(NewBudget(user, body), transactions)))
    /\ UNCHANGED <<schema, now, transactions>>
    /\ UNCHANGED recurringVars

\* POST /budgets/:id/toggle
BudgetToggle(user, id) ==
    /\ id \in DOMAIN budgets
    /\ budgets[id].userId = user
    /\ budgets' = [budgets EXCEPT ![id].isActive = ~@]
    /\ UNCHANGED <<schema, now, transactions>>
    /\ UNCHANGED recurringVars

\* GET /budgets/alerts: every active budget of the user whose window
\* contains now and whose alert is not sent gets its spent recomputed in
\* memory; the ones at or over the threshold are marked and saved.
shouldAlert(budget, spent) ==
    /\ spent * 100 >= budget.alertThreshold * budget.amount
    /\ ~budget.alertSent

NeedsAlert(budget, user, t) ==
    /\ budget.userId = user
    /\ budget.isActive
    /\ ~budget.alertSent
    /\ budget.startDate <= t
    /\ budget.endDate >= t

BudgetAlerts(user) ==
    /\ budgets' =
           [id \in DOMAIN budgets |->
               IF /\ NeedsAlert(budgets[id], user, now)
                  /\ shouldAlert(budgets[id],
                                 calculateSpent(budgets[id], transactions))
               THEN [Spending(budgets[id],
                              calculateSpent(budgets[id], transactions))
                        EXCEPT !.alertSent = TRUE]
               ELSE budgets[id]]
    /\ budgets' # budgets
    /\ UNCHANGED <<schema, now, transactions>>
    /\ UNCHANGED recurringVars

\* Mutant of renew: the alert flag is left as it was.
renewKeepsAlert(budget, t) ==
    [budget EXCEPT
        !.startDate = t,
        !.endDate   = t + (budget.endDate - budget.startDate),
        !.spent     = 0]

\* budget.renew() of a budget with autoRenew, at clock value t.
renew(budget, t) ==
    [budget EXCEPT
        !.startDate = t,
        !.endDate   = t + (budget.endDate - budget.startDate),
        !.spent     = 0,
        !.alertSent = FALSE]

\* Mutant of RenewedCopy: the copy takes the window of the original.
RenewedCopySameWindow(budget, user, t) == NewBudget(user, budget)

\* The newBudget of the manual renewal: the original's parameters on the
\* window that starts at t and has the original's duration.
RenewedCopy(budget, user, t) ==
    [ NewBudget(user, budget) EXCEPT
        !.startDate = t,
        !.endDate   = t + (budget.endDate - budget.startDate) ]

\* POST /budgets/:id/renew
BudgetRenew(user, id) ==
    /\ id \in DOMAIN budgets
    /\ budgets[id].userId = user
    /\ IF budgets[id].autoRenew
       THEN /\ BudgetPreSave(renew(budgets[id], now))
            /\ budgets' = [budgets EXCEPT ![id] = renew(budgets[id], now)]
       ELSE /\ DOMAIN budgets # BudgetIds
            /\ BudgetPreSave(RenewedCopy(budgets[id], user, now))
            /\ budgets' =
                   [budgets EXCEPT ![id].isActive = FALSE] @@
                   (FreshBudgetId(budgets) :>
                       Spending(RenewedCopy(budgets[id], user, now),
                                calculateSpent(RenewedCopy(budgets[id], user, now),
                                               transactions)))
    /\ UNCHANGED <<schema, now, transactions>>
    /\ UNCHANGED recurringVars

(***************************************************************************)
(* The transaction routes (routes/transactions.js, canonical schema)       *)
(***************************************************************************)
\* Request bodies of POST and PUT /transactions: an expense of January and
\* one of February in the budgeted category, and an income in that
\* category.
TxBody(type, amount, categoryId, date) ==
    [ type |-> type, amount |-> amount, categoryId |-> categoryId, date |-> date,
      userId |-> Unset ]

TxBodies ==
    { TxBody("expense", 100, Some("c1"), MakeDate(2024, 0, 15)),
      TxBody("expense", 50, Some("c1"), MakeDate(2024, 1, 10)),
      TxBody("income", 100, Some("c1"), MakeDate(2024, 0, 15)) }

\* A body that carries a userId next to the validated fields.
ReassignTx(user) ==
    [ TxBody("expense", 100, Some("c1"), MakeDate(2024, 0, 15))
        EXCEPT !.userId = Some(user) ]

\* new Transaction({...req.body, userId}) with the canonical defaults.
NewTx(user, body) ==
    [ userId     |-> user,
      type       |-> body.type,
      amount     |-> body.amount,
      categoryId |-> body.categoryId,
      date       |-> body.date,
      status     |-> Some("completed"),
      isDeleted  |-> Some(FALSE) ]

\* The Budget.find() filter of updateBudgetSpent.
ActiveNow(budget, categoryId, user, t) ==
    /\ budget.categoryId = categoryId
    /\ budget.userId = user
    /\ budget.isActive
    /\ budget.startDate <= t
    /\ budget.endDate >= t

\* updateBudgetSpent(categoryId, userId): calculateSpent() and save() on
\* every budget the filter finds; the Budget collection it leaves.
updateBudgetSpent(categoryId, user, bs, txs, t) ==
    [id \in DOMAIN bs |->
        IF ActiveNow(bs[id], categoryId, user, t)
        THEN Spending(bs[id], calculateSpent(bs[id], txs))
        ELSE bs[id]]

\* updateBudgetSpent for an optional categoryId, when cond holds.
UpdateIf(cond, categoryId, user, bs, txs, t) ==
    IF cond /\ categoryId # Unset
    THEN updateBudgetSpent(categoryId[1], user, bs, txs, t)
    ELSE bs

\* pre(/^find/): the queries of the routes see no soft-deleted document.
Found(txs, user, i) ==
    /\ i \in DOMAIN txs
    /\ txs[i].userId = user
    /\ txs[i].isDeleted # Some(TRUE)

\* POST /transactions
TxCreate(user, body) ==
    /\ Len(transactions) < MaxTx
    /\ transactions' = Append(transactions, NewTx(user, body))
    /\ budgets' = UpdateIf(body.type = "expense", body.categoryId, user,
                           budgets, transactions', now)
    /\ UNCHANGED <<schema, now>>
    /\ UNCHANGED recurringVars

\* POST /transactions/bulk with two transactions: insertMany, then
\* updateBudgetSpent once per category of the inserted expenses (the
\* request bodies have one category).
TxBulk(user, first, second) ==
    /\ Len(transactions) + 2 <= MaxTx
    /\ transactions' = transactions \o <<NewTx(user, first), NewTx(user, second)>>
    /\ budgets' =
           UpdateIf(TRUE,
                    IF first.type = "expense" /\ first.categoryId # Unset
                    THEN first.categoryId
                    ELSE IF second.type = "expense" THEN second.categoryId
                    ELSE Unset,
                    user, budgets, transactions', now)
    /\ UNCHANGED <<schema, now>>
    /\ UNCHANGED recurringVars

\* Object.assign(transaction, req.body): a body without categoryId leaves
\* the document's categoryId, a body with a userId replaces the document's.
Assigned(tx, body) ==
    [tx EXCEPT
        !.type       = body.type,
        !.amount     = body.amount,
        !.date       = body.date,
        !.categoryId = IF body.categoryId = Unset THEN @ ELSE body.categoryId,
        !.userId     = IF body.userId = Unset THEN @ ELSE body.userId[1]]

\* PUT /transactions/:id: the old category is recomputed first, then the
\* new one.
TxUpdate(user, i, body) ==
    /\ Found(transactions, user, i)
    /\ transactions' = [transactions EXCEPT ![i] = Assigned(@, body)]
    /\ budgets' =
           UpdateIf(body.type = "expense",
                    transactions'[i].categoryId, user,
                    UpdateIf(transactions[i].type = "expense" \/ body.type = "expense",
                             transactions[i].categoryId, user,
                             budgets, transactions', now),
                    transactions', now)
    /\ UNCHANGED <<schema, now>>
    /\ UNCHANGED recurringVars

\* DELETE /transactions/:id: softDelete(), then the recompute.
TxDelete(user, i) ==
    /\ Found(transactions, user, i)
    /\ transactions' = [transactions EXCEPT ![i].isDeleted = Some(TRUE)]
    /\ budgets' = UpdateIf(transactions[i].type = "expense",
                           transactions[i].categoryId, user,
                           budgets, transactions', now)
    /\ UNCHANGED <<schema, now>>
    /\ UNCHANGED recurringVars

\* POST /transactions/:id/restore: the route asks for isDeleted: true and
\* pre(/^find/) merges isDeleted: {$ne: true} into the same query, so the
\* query never returns a soft-deleted document; on the document it does
\* return, restore() writes the values already there and the recompute
\* follows.
TxRestore(user, i) ==
    /\ Found(transactions, user, i)
    /\ transactions' = [transactions EXCEPT ![i].isDeleted = Some(FALSE)]
    /\ budgets' = UpdateIf(transactions[i].type = "expense",
                           transactions[i].categoryId, user,
                           budgets, transactions', now)
    /\ UNCHANGED <<schema, now>>
    /\ UNCHANGED recurringVars

(***************************************************************************)
(* Two POST /transactions requests in flight (SpecRace)                    *)
(***************************************************************************)
RequestIds == {"A", "B"}

\* A request before its first await: body is req.body, todo the budgets
\* that updateBudgetSpent still has to go through, spent the value that
\* calculateSpent left on the budget document held in memory.
Request(body) == [pc |-> "start", body |-> body, todo |-> <<>>, spent |-> 0]

\* await transaction.save(); without an expense in a category the handler
\* goes on to its response.
RaceSaveTransaction(r) ==
    /\ requests[r].pc = "start"
    /\ transactions' = Append(transactions, NewTx(Owner, requests[r].body))
    /\ requests' = [requests EXCEPT ![r].pc =
           IF requests[r].body.type = "expense" /\ requests[r].body.categoryId # Unset
           THEN "saved" ELSE "done"]
    /\ UNCHANGED <<schema, now, budgets>>
    /\ UNCHANGED recurringVars

\* await Budget.find({...}) of updateBudgetSpent, in some order.
RaceFindBudgets(r) ==
    /\ requests[r].pc = "saved"
    /\ \E order \in Orders({ id \in DOMAIN budgets :
                               ActiveNow(budgets[id], requests[r].body.categoryId[1],
                                         Owner, now) }) :
          requests' = [requests EXCEPT
              ![r].todo = order,
              ![r].pc   = IF order = <<>> THEN "done" ELSE "found"]
    /\ UNCHANGED <<schema, now, budgets, transactions>>
    /\ UNCHANGED recurringVars

\* await budget.calculateSpent(): the aggregate reads the Transaction
\* collection as it is now.
RaceCalculateSpent(r) ==
    /\ requests[r].pc = "found"
    /\ requests' = [requests EXCEPT
           ![r].spent = calculateSpent(budgets[Head(requests[r].todo)], transactions),
           ![r].pc    = "calculated"]
    /\ UNCHANGED <<schema, now, budgets, transactions>>
    /\ UNCHANGED recurringVars

\* await budget.save(): writes the spent held in memory.
RaceSaveBudget(r) ==
    /\ requests[r].pc = "calculated"
    /\ budgets' = [budgets EXCEPT ![Head(requests[r].todo)].spent = requests[r].spent]
    /\ requests' = [requests EXCEPT
           ![r].todo = Tail(@),
           ![r].pc   = IF Tail(requests[r].todo) = <<>> THEN "done" ELSE "found"]
    /\ UNCHANGED <<schema, now, transactions>>
    /\ UNCHANGED recurringVars

(***************************************************************************)
(* Two POST /recurring/execute requests in flight (SpecExecuteRace)        *)
(***************************************************************************)
NoFound == [id \in {} |-> 0]

\* A request before its find(): todo is the rest of the find() result, docs
\* the documents as find() read them, held in memory.
ExecuteRequest == [pc |-> "start", todo |-> <<>>, docs |-> NoFound]

\* recurring.save() of a found document writes the paths assigned since
\* find(): lastExecution, nextExecution and executionCount, and isActive
\* when the loop set it to false.
SavedOver(persisted, found, advanced) ==
    [persisted EXCEPT
        !.lastExecution  = advanced.lastExecution,
        !.nextExecution  = advanced.nextExecution,
        !.executionCount = advanced.executionCount,
        !.isActive       = IF advanced.isActive # found.isActive
                           THEN advanced.isActive ELSE @]

\* await RecurringTransaction.find(filter)
ExecuteFind(r) ==
    /\ requests[r].pc = "start"
    /\ \E order \in Orders(Pending(recurrings, Owner, now)) :
          requests' = [requests EXCEPT
              ![r].pc   = IF order = <<>> THEN "done" ELSE "found",
              ![r].todo = order,
              ![r].docs = [id \in Pending(recurrings, Owner, now) |-> recurrings[id]]]
    /\ UNCHANGED storeVars

\* await transaction.save(): a validation error ends the request in the
\* catch.
ExecuteSaveTransaction(r) ==
    /\ requests[r].pc = "found"
    /\ Len(transactions) < MaxTx
    /\ IF ValidTransaction(schema,
              NewTransaction(schema, Head(requests[r].todo),
                             requests[r].docs[Head(requests[r].todo)]))
       THEN /\ transactions' =
                  Append(transactions,
                         NewTransaction(schema, Head(requests[r].todo),
                                        requests[r].docs[Head(requests[r].todo)]))
            /\ requests' = [requests EXCEPT ![r].pc = "saved"]
       ELSE /\ requests' = [requests EXCEPT ![r].pc = "done"]
            /\ UNCHANGED transactions
    /\ UNCHANGED <<schema, now, budgets>>
    /\ UNCHANGED recurringVars

\* await recurring.save(), then the next iteration or the response.
ExecuteSaveRecurring(r) ==
    /\ requests[r].pc = "saved"
    /\ recurrings' =
           [recurrings EXCEPT ![Head(requests[r].todo)] =
               SavedOver(@, requests[r].docs[Head(requests[r].todo)],
                         AdvanceRecurring(requests[r].docs[Head(requests[r].todo)]))]
    /\ requests' = [requests EXCEPT
           ![r].todo = Tail(@),
           ![r].pc   = IF Tail(requests[r].todo) = <<>> THEN "done" ELSE "found"]
    /\ UNCHANGED <<schema, now, transactions, passLog, passNow, passUser,
                   passBefore, budgets>>

(***************************************************************************)
(* Goals (models/Goal.js canonical schema, goals routes)                   *)
(***************************************************************************)
GoalIds == {"g1"}

GoalStatuses == {"active", "completed", "paused", "cancelled"}

\* Request bodies of POST and PUT /goals: goalValidation requires
\* targetAmount and a future targetDate; the handlers spread the whole
\* body into the document, so a body may carry currentAmount and status as
\* well.
GoalBody(targetAmount, currentAmount) ==
    [ targetAmount  |-> targetAmount,
      currentAmount |-> currentAmount,
      targetDate    |-> MakeDate(2025, 0, 1),
      status        |-> Unset ]

StatusBody(status) == [GoalBody(1000, Unset) EXCEPT !.status = Some(status)]

GoalBodies ==
    { GoalBody(1000, Unset), GoalBody(1000, Some(900)), GoalBody(100, Unset),
      StatusBody("completed") }

\* Statuses asked of POST /goals/:id/status.
StatusRequests == {"active", "completed", "paused"}

\* Amounts of POST /goals/:id/contribute; contributionValidation rejects 0.
ContributionAmounts == {0, 150, 900}

\* new Goal({...req.body, userId}) with the schema defaults; pushed counts
\* the contributions ever pushed and stands for the fresh _id of each.
NewGoal(user, body, t) ==
    [ userId        |-> user,
      targetAmount  |-> body.targetAmount,
      currentAmount |-> IF body.currentAmount = Unset THEN 0
                        ELSE body.currentAmount[1],
      startDate     |-> t,
      targetDate    |-> body.targetDate,
      status        |-> IF body.status = Unset THEN "active" ELSE body.status[1],
      contributions |-> <<>>,
      lastContribution |-> Unset,
      completedAt   |-> Unset,
      pushed        |-> 0 ]

\* Schema validation run by goal.save(); amounts are whole units.
ValidGoal(goal) ==
    /\ goal.targetAmount >= 1
    /\ goal.currentAmount >= 0
    /\ goal.status \in GoalStatuses
    /\ \A k \in DOMAIN goal.contributions : goal.contributions[k].amount >= 1

\* Mutant of PreSave: the hook does not complete the goal.
PreSaveNoCompletion(goal, t) == goal

\* pre('save') of the Goal schema, once the date check has passed.
PreSave(goal, t) ==
    IF goal.currentAmount >= goal.targetAmount /\ goal.status = "active"
    THEN [goal EXCEPT !.status = "completed", !.completedAt = Some(t)]
    ELSE goal

\* goal.save() succeeds: validation, and the date check of pre('save').
Saves(goal) == ValidGoal(goal) /\ goal.targetDate > goal.startDate

\* Mutant of addContributionError: a goal that is not active is accepted.
addContributionErrorAnyStatus(goal, amount) ==
    IF amount <= 0 THEN "Valor da contribuição deve ser maior que zero"
    ELSE ""

\* The message of the Error that goal.addContribution(amount) throws before
\* it touches the document, "" when it throws none.
addContributionError(goal, amount) ==
    IF amount <= 0 THEN "Valor da contribuição deve ser maior que zero"
    ELSE IF goal.status # "active"
    THEN "Meta deve estar ativa para receber contribuições"
    ELSE ""

\* goal.addContribution(amount) past its two checks, up to its save().
addContribution(goal, amount, t) ==
    IF goal.currentAmount + amount >= goal.targetAmount
    THEN [goal EXCEPT
            !.contributions = Append(@, [id |-> goal.pushed + 1, amount |-> amount]),
            !.pushed        = @ + 1,
            !.currentAmount = @ + amount,
            !.lastContribution = Some(t),
            !.status        = "completed",
            !.completedAt   = Some(t)]
    ELSE [goal EXCEPT
            !.contributions = Append(@, [id |-> goal.pushed + 1, amount |-> amount]),
            !.pushed        = @ + 1,
            !.currentAmount = @ + amount,
            !.lastContribution = Some(t)]

\* contributions.pull(contributionId)
Pull(contributions, cid) ==
    SelectSeq(contributions, LAMBDA c : c.id # cid)

\* contributions.id(contributionId).amount, for an id that is there.
AmountOf(contributions, cid) ==
    contributions[CHOOSE k \in DOMAIN contributions : contributions[k].id = cid].amount

\* The message of the Error that goal.removeContribution(cid) throws before
\* it touches the document, "" when it throws none.
removeContributionError(goal, cid) ==
    IF \E k \in DOMAIN goal.contributions : goal.contributions[k].id = cid
    THEN ""
    ELSE "Contribuição não encontrada"

\* Mutant of removeContribution: a completed goal is not reopened.
removeContributionStaysCompleted(goal, cid) ==
    [goal EXCEPT
        !.currentAmount = @ - AmountOf(goal.contributions, cid),
        !.contributions = Pull(@, cid)]

\* goal.removeContribution(contributionId), up to its save().
removeContribution(goal, cid) ==
    IF /\ goal.status = "completed"
       /\ goal.currentAmount - AmountOf(goal.contributions, cid) < goal.targetAmount
    THEN [goal EXCEPT
            !.currentAmount = @ - AmountOf(goal.contributions, cid),
            !.contributions = Pull(@, cid),
            !.status        = "active",
            !.completedAt   = Unset]
    ELSE [goal EXCEPT
            !.currentAmount = @ - AmountOf(goal.contributions, cid),
            !.contributions = Pull(@, cid)]

\* The status route, up to its save().
WithStatus(goal, status, t) ==
    [goal EXCEPT
        !.status      = status,
        !.completedAt = IF status = "completed" /\ goal.status # "completed"
                        THEN Some(t)
                        ELSE IF status # "completed" THEN Unset ELSE @]

\* History: the two latest operations, with the document before and after.
Entry(op, cid, status, before, after) ==
    [ op |-> op, cid |-> cid, status |-> status, before |-> before, after |-> after ]

Logged(log, entry) ==
    IF Len(log) < 2 THEN Append(log, entry) ELSE <<log[2], entry>>

\* What an operation that saves the document doc leaves behind.
GoalSaved(id, op, cid, status, doc) ==
    /\ Saves(doc)
    /\ goals' = (id :> PreSave(doc, now)) @@ goals
    /\ goalLog' = Logged(goalLog,
                         Entry(op, cid, status,
                               IF id \in DOMAIN goals THEN Some(goals[id]) ELSE Unset,
                               PreSave(doc, now)))
    /\ goalReply' = "ok"
    /\ UNCHANGED <<schema, now, transactions, budgets>>
    /\ UNCHANGED recurringVars

\* A request answered with status 400 and the given message; nothing is
\* saved.
GoalRejected(message) ==
    /\ goalReply' = message
    /\ UNCHANGED <<goals, goalLog>>
    /\ UNCHANGED <<schema, now, transactions, budgets>>
    /\ UNCHANGED recurringVars

\* POST /goals
GoalCreate(user, id, body) ==
    /\ id \notin DOMAIN goals
    /\ GoalSaved(id, "create", 0, "", NewGoal(user, body, now))

\* Object.assign(goal, req.body)
AssignedGoal(goal, body) ==
    [goal EXCEPT
        !.targetAmount  = body.targetAmount,
        !.targetDate    = body.targetDate,
        !.currentAmount = IF body.currentAmount = Unset THEN @
                          ELSE body.currentAmount[1],
        !.status        = IF body.status = Unset THEN @ ELSE body.status[1]]

\* PUT /goals/:id: 400 on a completed goal.
GoalUpdate(user, id, body) ==
    /\ id \in DOMAIN goals
    /\ goals[id].userId = user
    /\ goals[id].status # "completed"
    /\ GoalSaved(id, "update", 0, "", AssignedGoal(goals[id], body))

\* POST /goals/:id/contribute: 400 from contributionValidation on an
\* amount below 0.01; an Error thrown by addContribution is caught and
\* answered with 400 and its message.
GoalContribute(user, id, amount) ==
    /\ id \in DOMAIN goals
    /\ goals[id].userId = user
    /\ goals[id].pushed < MaxContributions
    /\ IF amount < 1
       THEN GoalRejected("Dados inválidos")
       ELSE IF addContributionError(goals[id], amount) # ""
       THEN GoalRejected(addContributionError(goals[id], amount))
       ELSE GoalSaved(id, "contribute", goals[id].pushed + 1, "",
                      addContribution(goals[id], amount, now))

\* DELETE /goals/:id/contributions/:contributionId: an Error thrown by
\* removeContribution is caught and answered with 400 and its message.
GoalRemoveContribution(user, id, cid) ==
    /\ id \in DOMAIN goals
    /\ goals[id].userId = user
    /\ IF removeContributionError(goals[id], cid) # ""
       THEN GoalRejected(removeContributionError(goals[id], cid))
       ELSE GoalSaved(id, "removeContribution", cid, "",
                      removeContribution(goals[id], cid))

\* POST /goals/:id/status
GoalStatus(user, id, status) ==
    /\ status \in GoalStatuses
    /\ id \in DOMAIN goals
    /\ goals[id].userId = user
    /\ GoalSaved(id, "status", 0, status, WithStatus(goals[id], status, now))

\* DELETE /goals/:id
GoalDelete(user, id) ==
    /\ id \in DOMAIN goals
    /\ goals[id].userId = user
    /\ goals' = [g \in DOMAIN goals \ {id} |-> goals[g]]
    /\ goalLog' = <<>>
    /\ goalReply' = "ok"
    /\ UNCHANGED <<schema, now, transactions, budgets>>
    /\ UNCHANGED recurringVars

(***************************************************************************)
(* Two POST /goals/:id/contribute requests in flight (SpecContributeRace)  *)
(***************************************************************************)
\* A request before its validation: doc is the goal held in memory once
\* findOne has answered.
ContributeRequest(amount) == [pc |-> "start", amount |-> amount, doc |-> Unset]

\* goal.save() of the document found as found and changed in memory to
\* changed: the pushed contribution goes out as $push, the assigned paths
\* as $set of their values in memory; no version is compared.
SavedGoal(persisted, found, changed) ==
    [persisted EXCEPT
        !.contributions    =
            Append(@, [id     |-> persisted.pushed + 1,
                       amount |-> changed.contributions[Len(changed.contributions)].amount]),
        !.pushed           = @ + 1,
        !.currentAmount    = changed.currentAmount,
        !.lastContribution = changed.lastContribution,
        !.status           = IF changed.status # found.status
                             THEN changed.status ELSE @,
        !.completedAt      = IF changed.completedAt # found.completedAt
                             THEN changed.completedAt ELSE @]

\* contributionValidation, then await Goal.findOne({_id, userId}).
ContributeLoad(r, id) ==
    /\ requests[r].pc = "start"
    /\ id \in DOMAIN goals
    /\ requests' = [requests EXCEPT
           ![r].pc  = IF requests[r].amount < 1 THEN "rejected" ELSE "loaded",
           ![r].doc = IF requests[r].amount < 1 THEN Unset ELSE Some(goals[id])]
    /\ UNCHANGED <<goals, goalLog, goalReply>>
    /\ UNCHANGED storeVars

\* await goal.addContribution(amount): its checks on the document in
\* memory, then its save().
ContributeSave(r, id) ==
    /\ requests[r].pc = "loaded"
    /\ IF addContributionError(requests[r].doc[1], requests[r].amount) # ""
       THEN /\ requests' = [requests EXCEPT ![r].pc = "rejected"]
            /\ UNCHANGED goals
       ELSE /\ Saves(addContribution(requests[r].doc[1], requests[r].amount, now))
            /\ goals' =
                  [goals EXCEPT ![id] =
                      SavedGoal(@, requests[r].doc[1],
                                PreSave(addContribution(requests[r].doc[1],
                                                        requests[r].amount, now),
                                        now))]
            /\ requests' = [requests EXCEPT ![r].pc = "done"]
    /\ UNCHANGED <<goalLog, goalReply>>
    /\ UNCHANGED storeVars

(***************************************************************************)
(* The month count of the legacy goals routes (routes/goals.js)            *)
(***************************************************************************)
Max(a, b) == IF a >= b THEN a ELSE b

\* Mutant of monthsDiffCreate: the month is added when the target day is
\* before the day of the clock.
monthsDiffCreateDayBefore(target, t) ==
    Max((getFullYear(target) - getFullYear(t)) * 12
            + (getMonth(target) - getMonth(t))
            + (IF getDate(target) < getDate(t) THEN 1 ELSE 0),
        1)

\* monthsDiff of POST /goals, for target = new Date(targetDate) and the
\* clock value t.
monthsDiffCreate(target, t) ==
    Max((getFullYear(target) - getFullYear(t)) * 12
            + (getMonth(target) - getMonth(t))
            + (IF getDate(target) > getDate(t) THEN 1 ELSE 0),
        1)

\* Mutant of monthsDiffUpdate: without Math.max(monthsDiff, 1).
monthsDiffUpdateNoFloor(target, t) ==
    (getFullYear(target) - getFullYear(t)) * 12
        + (getMonth(target) - getMonth(t))
        + (IF getDate(target) > getDate(t) THEN 1 ELSE 0)

\* monthsDiff of PUT /goals/:id.
monthsDiffUpdate(target, t) ==
    Max((getFullYear(target) - getFullYear(t)) * 12
            + (getMonth(target) - getMonth(t))
            + (IF getDate(target) > getDate(t) THEN 1 ELSE 0),
        1)

\* Clock values and target dates: the 10th, 15th, 20th and 31st of January,
\* March and December of 2023 and 2024.
PaceDates ==
    { MakeDate(y, m, d) : y \in {2023, 2024}, m \in {0, 2, 11},
                          d \in {10, 15, 20, 31} }

\* POST /goals computes monthsDiff.
LegacyGoalCreate ==
    /\ paceCreate = Unset
    /\ paceCreate' = Some(monthsDiffCreate(paceTarget, paceNow))
    /\ UNCHANGED <<paceNow, paceTarget, paceUpdate>>

\* PUT /goals/:id with a targetDate computes monthsDiff.
LegacyGoalUpdate ==
    /\ paceUpdate = Unset
    /\ paceUpdate' = Some(monthsDiffUpdate(paceTarget, paceNow))
    /\ UNCHANGED <<paceNow, paceTarget, paceCreate>>

(***************************************************************************)
(* Specifications                                                          *)
(***************************************************************************)
NoRecurrings == [id \in {} |-> 0]

NoDocuments == [id \in {} |-> 0]

CalcIdle ==
    /\ calcDate = StartNow
    /\ calcAnchor = Daily
    /\ calcNext = StartNow
    /\ calcIter = 0

StoreIdle ==
    /\ schema = "canonical"
    /\ now = StartNow
    /\ recurrings = NoRecurrings
    /\ transactions = <<>>
    /\ passLog = <<>>
    /\ passNow = StartNow
    /\ passUser = "none"
    /\ passBefore = NoRecurrings
    /\ budgets = NoDocuments

RaceIdle == requests = NoDocuments

PaceIdle ==
    /\ paceNow = StartNow
    /\ paceTarget = StartNow
    /\ paceCreate = Unset
    /\ paceUpdate = Unset

GoalIdle ==
    /\ goals = NoDocuments
    /\ goalLog = <<>>
    /\ goalReply = ""

\* The recurring routes. The user has posted the budget of 2024 for the
\* category of the definitions, on an empty Transaction collection.
PostedBudget(user, body) ==
    Spending(NewBudget(user, body), calculateSpent(NewBudget(user, body), <<>>))

Init ==
    /\ CalcIdle
    /\ RaceIdle
    /\ GoalIdle
    /\ PaceIdle
    /\ schema \in Schemas
    /\ now = StartNow
    /\ recurrings = NoRecurrings
    /\ transactions = <<>>
    /\ passLog = <<>>
    /\ passNow = StartNow
    /\ passUser = "none"
    /\ passBefore = NoRecurrings
    /\ budgets = ("b1" :> PostedBudget(Owner, YearBudget))

Next ==
    \/ \E user \in Users, id \in RecurringIds, body \in CreateBodies :
          Create(user, id, body) /\ UNCHANGED nonStoreVars
    \/ \E user \in Users : Execute(user) /\ UNCHANGED nonStoreVars
    \/ Tick /\ UNCHANGED nonStoreVars

Spec == Init /\ [][Next]_vars

\* calculateNextExecution applied to a date and an anchor, again and again.
InitCalc ==
    /\ StoreIdle
    /\ RaceIdle
    /\ GoalIdle
    /\ PaceIdle
    /\ calcDate \in CalcDates
    /\ calcAnchor \in CalcAnchors
    /\ calcNext = calcDate
    /\ calcIter = 0

NextCalc ==
    \/ /\ CalcCall
       /\ UNCHANGED storeVars /\ UNCHANGED requests
       /\ UNCHANGED goalVars /\ UNCHANGED paceVars
    \/ /\ CalcAgain
       /\ UNCHANGED storeVars /\ UNCHANGED requests
       /\ UNCHANGED goalVars /\ UNCHANGED paceVars

SpecCalc == InitCalc /\ [][NextCalc]_vars

\* The budget routes and the transaction routes of one user, who posts one
\* budget; the clock stops at BudgetHorizon.
BudgetHorizon == MakeDate(2024, 1, 1)

InitBudget ==
    /\ CalcIdle
    /\ StoreIdle
    /\ RaceIdle
    /\ GoalIdle
    /\ PaceIdle

NextBudget ==
    \/ \E body \in JanuaryBudgets :
          /\ budgets = NoDocuments
          /\ BudgetCreate(Owner, body)
          /\ UNCHANGED nonStoreVars
    \/ \E id \in BudgetIds : BudgetToggle(Owner, id) /\ UNCHANGED nonStoreVars
    \/ BudgetAlerts(Owner) /\ UNCHANGED nonStoreVars
    \/ \E id \in BudgetIds : BudgetRenew(Owner, id) /\ UNCHANGED nonStoreVars
    \/ \E body \in TxBodies : TxCreate(Owner, body) /\ UNCHANGED nonStoreVars
    \/ \E first, second \in TxBodies :
          TxBulk(Owner, first, second) /\ UNCHANGED nonStoreVars
    \/ \E i \in 1..MaxTx, body \in TxBodies :
          TxUpdate(Owner, i, body) /\ UNCHANGED nonStoreVars
    \/ \E i \in 1..MaxTx : TxDelete(Owner, i) /\ UNCHANGED nonStoreVars
    \/ \E i \in 1..MaxTx : TxRestore(Owner, i) /\ UNCHANGED nonStoreVars
    \/ Tick /\ now' <= BudgetHorizon /\ UNCHANGED nonStoreVars

SpecBudget == InitBudget /\ [][NextBudget]_vars

\* calculateSpent applied by POST /budgets to a Transaction collection of
\* four documents with the amounts 100, 50, 25 and 999; each is in the
\* budget's window and counts, or differs from such a document in one field.
MarchBudget == BudgetBody(MakeDate(2024, 2, 1), MakeDate(2024, 2, 31), FALSE)

Counted(amount) ==
    NewTx(Owner, TxBody("expense", amount, Some("c1"), MakeDate(2024, 2, 15)))

Variants(amount) ==
    { Counted(amount),
      [Counted(amount) EXCEPT !.date = MakeDate(2024, 2, 1)],
      [Counted(amount) EXCEPT !.date = MakeDate(2024, 2, 31)],
      [Counted(amount) EXCEPT !.date = MakeDate(2024, 1, 29)],
      [Counted(amount) EXCEPT !.date = MakeDate(2024, 3, 1)],
      [Counted(amount) EXCEPT !.isDeleted = Some(TRUE)],
      [Counted(amount) EXCEPT !.isDeleted = Unset],
      [Counted(amount) EXCEPT !.status = Some("pending")],
      [Counted(amount) EXCEPT !.type = "income"],
      [Counted(amount) EXCEPT !.categoryId = Some("c2")],
      [Counted(amount) EXCEPT !.categoryId = Unset],
      [Counted(amount) EXCEPT !.userId = "u2"] }

InitSpent ==
    /\ CalcIdle
    /\ RaceIdle
    /\ GoalIdle
    /\ PaceIdle
    /\ schema = "canonical"
    /\ now = StartNow
    /\ recurrings = NoRecurrings
    /\ passLog = <<>>
    /\ passNow = StartNow
    /\ passUser = "none"
    /\ passBefore = NoRecurrings
    /\ budgets = NoDocuments
    /\ \E a \in Variants(100), b \in Variants(50), c \in Variants(25),
          d \in Variants(999) : transactions = <<a, b, c, d>>

NextSpent == BudgetCreate(Owner, MarchBudget) /\ UNCHANGED nonStoreVars

SpecSpent == InitSpent /\ [][NextSpent]_vars

\* Two POST /transactions requests of one user against the budget of 2024,
\* interleaved at their awaits.
InitRace ==
    /\ CalcIdle
    /\ GoalIdle
    /\ PaceIdle
    /\ schema = "canonical"
    /\ now = StartNow
    /\ recurrings = NoRecurrings
    /\ transactions = <<>>
    /\ passLog = <<>>
    /\ passNow = StartNow
    /\ passUser = "none"
    /\ passBefore = NoRecurrings
    /\ budgets = ("b1" :> PostedBudget(Owner, YearBudget))
    /\ requests \in [RequestIds -> { Request(body) : body \in TxBodies }]

NextRace ==
    \/ \E r \in RequestIds :
          /\ RaceSaveTransaction(r)
          /\ UNCHANGED calcVars /\ UNCHANGED goalVars /\ UNCHANGED paceVars
    \/ \E r \in RequestIds :
          /\ RaceFindBudgets(r)
          /\ UNCHANGED calcVars /\ UNCHANGED goalVars /\ UNCHANGED paceVars
    \/ \E r \in RequestIds :
          /\ RaceCalculateSpent(r)
          /\ UNCHANGED calcVars /\ UNCHANGED goalVars /\ UNCHANGED paceVars
    \/ \E r \in RequestIds :
          /\ RaceSaveBudget(r)
          /\ UNCHANGED calcVars /\ UNCHANGED goalVars /\ UNCHANGED paceVars

SpecRace == InitRace /\ [][NextRace]_vars

\* The goal routes, called by one user.
InitGoal ==
    /\ CalcIdle
    /\ StoreIdle
    /\ RaceIdle
    /\ GoalIdle
    /\ PaceIdle

NextGoal ==
    \/ \E user \in {Owner}, id \in GoalIds, body \in GoalBodies :
          /\ GoalCreate(user, id, body)
          /\ UNCHANGED calcVars /\ UNCHANGED requests /\ UNCHANGED paceVars
    \/ \E user \in {Owner}, id \in GoalIds, body \in GoalBodies :
          /\ GoalUpdate(user, id, body)
          /\ UNCHANGED calcVars /\ UNCHANGED requests /\ UNCHANGED paceVars
    \/ \E user \in {Owner}, id \in GoalIds, amount \in ContributionAmounts :
          /\ GoalContribute(user, id, amount)
          /\ UNCHANGED calcVars /\ UNCHANGED requests /\ UNCHANGED paceVars
    \/ \E user \in {Owner}, id \in GoalIds, cid \in 1..MaxContributions :
          /\ GoalRemoveContribution(user, id, cid)
          /\ UNCHANGED calcVars /\ UNCHANGED requests /\ UNCHANGED paceVars
    \/ \E user \in {Owner}, id \in GoalIds, status \in StatusRequests :
          /\ GoalStatus(user, id, status)
          /\ UNCHANGED calcVars /\ UNCHANGED requests /\ UNCHANGED paceVars
    \/ \E user \in {Owner}, id \in GoalIds :
          /\ GoalDelete(user, id)
          /\ UNCHANGED calcVars /\ UNCHANGED requests /\ UNCHANGED paceVars

SpecGoal == InitGoal /\ [][NextGoal]_vars

\* The month count of the legacy goals routes on drawn dates.
InitMonths ==
    /\ CalcIdle
    /\ StoreIdle
    /\ RaceIdle
    /\ GoalIdle
    /\ paceNow \in PaceDates
    /\ paceTarget \in PaceDates
    /\ paceCreate = Unset
    /\ paceUpdate = Unset

NextMonths ==
    \/ /\ LegacyGoalCreate
       /\ UNCHANGED calcVars /\ UNCHANGED storeVars
       /\ UNCHANGED requests /\ UNCHANGED goalVars
    \/ /\ LegacyGoalUpdate
       /\ UNCHANGED calcVars /\ UNCHANGED storeVars
       /\ UNCHANGED requests /\ UNCHANGED goalVars

SpecMonths == InitMonths /\ [][NextMonths]_vars

\* Two users on the transaction routes and on POST and PUT /recurring, with
\* request bodies that carry a userId.
PostedTx == TxBody("expense", 100, Some("c1"), MakeDate(2024, 0, 15))

OwnerTxBodies ==
    { TxBody("expense", 50, Some("c1"), MakeDate(2024, 0, 15)) } \cup
    { ReassignTx(user) : user \in Users }

InitOwner ==
    /\ CalcIdle
    /\ StoreIdle
    /\ RaceIdle
    /\ GoalIdle
    /\ PaceIdle

NextOwner ==
    \/ \E user \in Users : TxCreate(user, PostedTx) /\ UNCHANGED nonStoreVars
    \/ \E user \in Users, i \in 1..MaxTx, body \in OwnerTxBodies :
          TxUpdate(user, i, body) /\ UNCHANGED nonStoreVars
    \/ \E user \in Users, i \in 1..MaxTx :
          TxDelete(user, i) /\ UNCHANGED nonStoreVars
    \/ \E user \in Users, id \in RecurringIds :
          Create(user, id, Body(100, Daily, Unset, Unset)) /\ UNCHANGED nonStoreVars
    \/ \E user \in Users, id \in RecurringIds, patch \in RecurringPatches :
          RecurringUpdate(user, id, patch) /\ UNCHANGED nonStoreVars

SpecOwner == InitOwner /\ [][NextOwner]_vars

\* Two POST /recurring/execute requests of the user who posted one
\* definition, interleaved at their awaits.
InitExecuteRace ==
    /\ CalcIdle
    /\ GoalIdle
    /\ PaceIdle
    /\ schema = "canonical"
    /\ now \in NowPoints
    /\ \E body \in CreateBodies : recurrings = ("r1" :> NewRecurring(Owner, body))
    /\ transactions = <<>>
    /\ passLog = <<>>
    /\ passNow = StartNow
    /\ passUser = "none"
    /\ passBefore = NoRecurrings
    /\ budgets = NoDocuments
    /\ requests = [r \in RequestIds |-> ExecuteRequest]

NextExecuteRace ==
    \/ \E r \in RequestIds :
          /\ ExecuteFind(r)
          /\ UNCHANGED calcVars /\ UNCHANGED goalVars /\ UNCHANGED paceVars
    \/ \E r \in RequestIds :
          /\ ExecuteSaveTransaction(r)
          /\ UNCHANGED calcVars /\ UNCHANGED goalVars /\ UNCHANGED paceVars
    \/ \E r \in RequestIds :
          /\ ExecuteSaveRecurring(r)
          /\ UNCHANGED calcVars /\ UNCHANGED goalVars /\ UNCHANGED paceVars

SpecExecuteRace == InitExecuteRace /\ [][NextExecuteRace]_vars

\* Two POST /goals/g1/contribute requests of the user who posted the goal,
\* interleaved at their awaits.
InitContributeRace ==
    /\ CalcIdle
    /\ StoreIdle
    /\ PaceIdle
    /\ \E body \in GoalBodies :
          goals = ("g1" :> PreSave(NewGoal(Owner, body, StartNow), StartNow))
    /\ goalLog = <<>>
    /\ goalReply = ""
    /\ requests \in [RequestIds ->
                        { ContributeRequest(amount) : amount \in ContributionAmounts }]

NextContributeRace ==
    \/ \E r \in RequestIds :
          /\ ContributeLoad(r, "g1")
          /\ UNCHANGED calcVars /\ UNCHANGED paceVars
    \/ \E r \in RequestIds :
          /\ ContributeSave(r, "g1")
          /\ UNCHANGED calcVars /\ UNCHANGED paceVars

SpecContributeRace == InitContributeRace /\ [][NextContributeRace]_vars

(***************************************************************************)
(* Properties of calculateNextExecution (SpecCalc)                         *)
(***************************************************************************)
IsLeapYear(y) == (y % 4 = 0 /\ y % 100 # 0) \/ y % 400 = 0

\* Length of month m (0-based) of year y, from the calendar.
MonthLength(y, m) ==
    IF m = 1 THEN (IF IsLeapYear(y) THEN 29 ELSE 28)
    ELSE IF m \in {3, 5, 8, 10} THEN 30 ELSE 31

Called == calcIter > 0

\* C3: a monthly result lies in the calendar month immediately following
\* the input's month, on day min(dayOfMonth, length of that month).
C3_MonthlyNextMonthClamped ==
    (Called /\ calcAnchor.frequency = "monthly") =>
        LET y  == getFullYear(calcDate)
            m  == getMonth(calcDate)
            ty == IF m = 11 THEN y + 1 ELSE y
            tm == (m + 1) % 12
        IN  /\ getFullYear(calcNext) = ty
            /\ getMonth(calcNext) = tm
            /\ getDate(calcNext) = Min(calcAnchor.dayOfMonth[1], MonthLength(ty, tm))

\* C5: for every frequency the result is strictly later than the input, so
\* a date advanced again and again strictly increases.
C5_StrictlyLater == Called => calcNext > calcDate

C5_Witness ==
    /\ calcIter >= 2
    /\ calcAnchor.frequency = "weekly"
    /\ getDay(calcDate) = calcAnchor.dayOfWeek[1]
    /\ calcNext > calcDate

\* C6: a weekly result falls on weekday dayOfWeek, 1 to 7 days after the
\* input, and exactly 7 days after an input that is on that weekday.
C6_WeeklyOnAnchorWithinWeek ==
    (Called /\ calcAnchor.frequency = "weekly") =>
        /\ getDay(calcNext) = calcAnchor.dayOfWeek[1]
        /\ calcNext - calcDate \in 1..7
        /\ (getDay(calcDate) = calcAnchor.dayOfWeek[1] => calcNext = calcDate + 7)

C6_Witness ==
    /\ calcIter = 1
    /\ calcAnchor.frequency = "weekly"
    /\ getDay(calcDate) # calcAnchor.dayOfWeek[1]
    /\ calcNext - calcDate = 6

\* C7: a yearly result is exactly day DD of month MM of the year after the
\* input's year, whenever that day exists.
C7_YearlyExactAnchor ==
    (Called /\ calcAnchor.frequency = "yearly") =>
        LET parts == Split(calcAnchor.dayOfYear[1], "-")
            mm    == parseInt(parts[1])
            dd    == parseInt(parts[2])
            ty    == getFullYear(calcDate) + 1
        IN  dd <= MonthLength(ty, mm - 1) =>
                /\ getFullYear(calcNext) = ty
                /\ getMonth(calcNext) = mm - 1
                /\ getDate(calcNext) = dd

(***************************************************************************)
(* Properties of the execute pass (Spec)                                   *)
(***************************************************************************)
Steps == DOMAIN passLog

\* C1: at most one transaction exists per definition and occurrence date,
\* also after a pass whose save of the definition failed.
C1_OnePerOccurrence ==
    \A i, j \in DOMAIN transactions :
        (/\ transactions[i].origin = transactions[j].origin
         /\ transactions[i].date = transactions[j].date) => i = j

\* C2: when the save of the materialized transaction fails, the persisted
\* definition is as the pass found it: nextExecution, lastExecution,
\* executionCount and isActive are unchanged.
C2_TransactionFailureKeepsDefinition ==
    \A k \in Steps :
        passLog[k].outcome = "transaction.save failed" =>
            LET was == passBefore[passLog[k].id]
                is  == recurrings[passLog[k].id]
            IN  /\ is.nextExecution = was.nextExecution
                /\ is.lastExecution = was.lastExecution
                /\ is.executionCount = was.executionCount
                /\ is.isActive = was.isActive

C2_Witness ==
    /\ schema = "canonical"
    /\ \E k \in Steps :
          /\ k = 2
          /\ passLog[k].outcome = "transaction.save failed"
          /\ recurrings[passLog[k].id].amount = 100

\* C4: the scenario definition (monthly, dayOfMonth 31, startDate
\* 2024-01-31, maxExecutions 2) gets one transaction dated 2024-01-31 from
\* its first execute at 2024-02-01, which leaves nextExecution 2024-02-29,
\* executionCount 1 and isActive true; and one dated 2024-02-29 from its
\* second execute at 2024-03-01, which leaves nextExecution 2024-03-31,
\* executionCount 2 and isActive false.
IsScenario(d) ==
    /\ d.frequency = "monthly"
    /\ d.dayOfMonth = Some(31)
    /\ d.startDate = MakeDate(2024, 0, 31)
    /\ d.endDate = Unset
    /\ d.maxExecutions = Some(2)

DatesFrom(id) ==
    { transactions[i].date : i \in { j \in DOMAIN transactions :
                                        transactions[j].origin = id } }

ScenarioPass(id, at, count) ==
    /\ schema = "canonical"
    /\ passNow = at
    /\ id \in DOMAIN passBefore
    /\ IsScenario(passBefore[id])
    /\ passBefore[id].userId = passUser
    /\ passBefore[id].executionCount = count
    /\ \A k \in Steps : passLog[k].outcome = "ok"

C4_ScenarioRun ==
    \A id \in RecurringIds :
        /\ ScenarioPass(id, MakeDate(2024, 1, 1), 0) =>
              /\ DatesFrom(id) = {MakeDate(2024, 0, 31)}
              /\ recurrings[id].nextExecution = MakeDate(2024, 1, 29)
              /\ recurrings[id].executionCount = 1
              /\ recurrings[id].isActive
        /\ ScenarioPass(id, MakeDate(2024, 2, 1), 1) =>
              /\ DatesFrom(id) = {MakeDate(2024, 0, 31), MakeDate(2024, 1, 29)}
              /\ recurrings[id].nextExecution = MakeDate(2024, 2, 31)
              /\ recurrings[id].executionCount = 2
              /\ ~recurrings[id].isActive

\* C8: a pass materializes a transaction only for a definition that, as
\* the pass found it, is active, has nextExecution <= now, has no endDate
\* earlier than now, and is below maxExecutions when that is set.
C8_OnlyDueDefinitions ==
    \A k \in Steps :
        passLog[k].tx # 0 =>
            LET d == passBefore[passLog[k].id]
            IN  /\ d.isActive
                /\ d.nextExecution <= passNow
                /\ (d.endDate # Unset => d.endDate[1] >= passNow)
                /\ (d.maxExecutions # Unset =>
                        d.executionCount < d.maxExecutions[1])

\* C9: a materialized transaction is persisted with the nextExecution the
\* definition had before the step as its date, is flagged as recurring,
\* and stores a reference to the definition it comes from.
C9_DatedFlaggedLinked ==
    \A k \in Steps :
        passLog[k].tx # 0 =>
            LET t == transactions[passLog[k].tx]
            IN  /\ t.date = passBefore[passLog[k].id].nextExecution
                /\ t.isRecurring
                /\ t.recurringId = Some(passLog[k].id)

\* C10: after an execute step the definition is inactive exactly when
\* maxExecutions is set and reached, or endDate is set and the new
\* nextExecution is later than endDate.
C10_InactiveExactlyWhenOver ==
    \A k \in Steps :
        passLog[k].outcome = "ok" =>
            LET d == recurrings[passLog[k].id]
            IN  (~d.isActive) <=>
                    \/ /\ d.maxExecutions # Unset
                       /\ d.executionCount >= d.maxExecutions[1]
                    \/ /\ d.endDate # Unset
                       /\ d.nextExecution > d.endDate[1]

C10_Witness ==
    \E k \in Steps :
        /\ passLog[k].outcome = "ok"
        /\ ~recurrings[passLog[k].id].isActive
        /\ recurrings[passLog[k].id].maxExecutions = Some(2)
        /\ recurrings[passLog[k].id].endDate = Unset

\* C11: within one pass a failure while materializing one definition ends
\* only that definition's step; every other definition that was due when
\* the pass began is still materialized and advanced.
C11_FailureAbortsOnlyItsStep ==
    \A k \in Steps :
        passLog[k].outcome # "ok" =>
            \A id \in Pending(passBefore, passUser, passNow) \ {passLog[k].id} :
                /\ passBefore[id].nextExecution \in DatesFrom(id)
                /\ recurrings[id].executionCount = passBefore[id].executionCount + 1
                /\ recurrings[id].lastExecution = Some(passBefore[id].nextExecution)

\* C12: an execute step that materializes an expense of a definition with
\* a category recomputes every active budget of that owner and category
\* whose window holds the transaction, so that the budget's spent includes
\* the amount of the new transaction. (Only execute adds a transaction
\* under Spec.)
C12_ExecuteRecomputesBudgets ==
    [][\A i \in DOMAIN transactions' \ DOMAIN transactions :
       \A b \in DOMAIN budgets :
          (/\ transactions'[i].type = "expense"
           /\ recurrings[transactions'[i].origin].category = budgets[b].categoryId
           /\ budgets[b].userId = transactions'[i].userId
           /\ budgets[b].isActive
           /\ budgets[b].startDate <= transactions'[i].date
           /\ transactions'[i].date <= budgets[b].endDate)
          => budgets'[b].spent >= transactions'[i].amount]_vars

(***************************************************************************)
(* Properties of the budgets (SpecSpent, SpecBudget, SpecRace)             *)
(***************************************************************************)
\* The transactions a budget counts: same owner, same category, expense,
\* completed, not soft-deleted, dated within [startDate, endDate].
Matching(budget, txs) ==
    { i \in DOMAIN txs :
        /\ txs[i].userId = budget.userId
        /\ txs[i].categoryId = Some(budget.categoryId)
        /\ txs[i].type = "expense"
        /\ txs[i].status = Some("completed")
        /\ txs[i].isDeleted # Some(TRUE)
        /\ budget.startDate <= txs[i].date
        /\ txs[i].date <= budget.endDate }

RECURSIVE SumOver(_, _)
SumOver(txs, S) ==
    IF S = {} THEN 0
    ELSE txs[CHOOSE i \in S : TRUE].amount
         + SumOver(txs, S \ {CHOOSE i \in S : TRUE})

MatchingSum(budget, txs) == SumOver(txs, Matching(budget, txs))

C14_SpentFollowsTransactions ==
    [][transactions' # transactions =>
          \A id \in DOMAIN budgets' :
              budgets'[id].spent = MatchingSum(budgets'[id], transactions')]_vars

\* C15: when two POST /transactions requests that ran interleaved have
\* both finished, every budget's spent is the sum of its matching
\* transactions.
C15_ConcurrentRequestsConverge ==
    (\A r \in DOMAIN requests : requests[r].pc = "done") =>
        \A id \in DOMAIN budgets :
            budgets[id].spent = MatchingSum(budgets[id], transactions)

\* C16: renewing a budget that has autoRenew keeps the same record and
\* creates none: startDate becomes now, endDate now plus the previous
\* duration, spent 0 and alertSent false, while amount, category, owner
\* and isActive stay as they were.
C16_AutoRenewInPlace ==
    [][\A id \in BudgetIds :
          (BudgetRenew(Owner, id) /\ budgets[id].autoRenew) =>
              /\ DOMAIN budgets' = DOMAIN budgets
              /\ \A other \in DOMAIN budgets \ {id} : budgets'[other] = budgets[other]
              /\ budgets'[id].startDate = now
              /\ budgets'[id].endDate =
                     now + (budgets[id].endDate - budgets[id].startDate)
              /\ budgets'[id].spent = 0
              /\ budgets'[id].alertSent = FALSE
              /\ budgets'[id].amount = budgets[id].amount
              /\ budgets'[id].categoryId = budgets[id].categoryId
              /\ budgets'[id].userId = budgets[id].userId
              /\ budgets'[id].isActive = budgets[id].isActive]_vars

\* A deactivated autoRenew budget renewed on 2024-02-01, with an expense of
\* its new window in the collection.
C16_Witness ==
    /\ DOMAIN budgets = {"b1"}
    /\ budgets["b1"].autoRenew
    /\ ~budgets["b1"].isActive
    /\ budgets["b1"].startDate = MakeDate(2024, 1, 1)
    /\ budgets["b1"].endDate = MakeDate(2024, 2, 2)
    /\ budgets["b1"].spent = 0
    /\ Matching(budgets["b1"], transactions) # {}

\* C17: renewing a budget without autoRenew creates exactly one budget,
\* with the owner, category, amount and alertThreshold of the original and
\* the window [now, now + original duration], sets the original's isActive
\* to false, and leaves the original's window and spent as they were.
C17_ManualRenewCopies ==
    [][\A id \in BudgetIds :
          (BudgetRenew(Owner, id) /\ ~budgets[id].autoRenew) =>
              \E new \in DOMAIN budgets' \ DOMAIN budgets :
                  /\ DOMAIN budgets' = DOMAIN budgets \cup {new}
                  /\ budgets'[new].userId = budgets[id].userId
                  /\ budgets'[new].categoryId = budgets[id].categoryId
                  /\ budgets'[new].amount = budgets[id].amount
                  /\ budgets'[new].alertThreshold = budgets[id].alertThreshold
                  /\ budgets'[new].startDate = now
                  /\ budgets'[new].endDate =
                         now + (budgets[id].endDate - budgets[id].startDate)
                  /\ budgets'[id].isActive = FALSE
                  /\ budgets'[id].startDate = budgets[id].startDate
                  /\ budgets'[id].endDate = budgets[id].endDate
                  /\ budgets'[id].spent = budgets[id].spent]_vars

\* The January budget with 100 spent, renewed by hand on 2024-02-01.
C17_Witness ==
    /\ DOMAIN budgets = {"b1", "b2"}
    /\ ~budgets["b1"].autoRenew
    /\ ~budgets["b1"].isActive
    /\ budgets["b1"].startDate = MakeDate(2024, 0, 1)
    /\ budgets["b1"].endDate = MakeDate(2024, 0, 31)
    /\ budgets["b1"].spent = 100
    /\ budgets["b2"].isActive
    /\ budgets["b2"].startDate = MakeDate(2024, 1, 1)
    /\ budgets["b2"].endDate = MakeDate(2024, 2, 2)

(***************************************************************************)
(* Properties of the goals (SpecGoal)                                      *)
(***************************************************************************)
RECURSIVE SumContributions(_)
SumContributions(contributions) ==
    IF contributions = <<>> THEN 0
    ELSE Head(contributions).amount + SumContributions(Tail(contributions))

\* C18: after any sequence of goal operations, the currentAmount of every
\* goal is the sum of the amounts of its contributions.
C18_CurrentAmountIsSum ==
    \A id \in DOMAIN goals :
        goals[id].currentAmount = SumContributions(goals[id].contributions)

\* A contribution that brought the goal to its target.
Reaching(entry) ==
    /\ entry.op = "contribute"
    /\ entry.after.currentAmount >= entry.after.targetAmount

\* C19: a contribution that brings currentAmount to targetAmount or above
\* leaves the goal completed with completedAt set; removing that same
\* contribution next restores currentAmount to its value before the
\* contribution, status to active and completedAt to null.
C19_ContributeThenRemove ==
    /\ \A k \in DOMAIN goalLog :
          Reaching(goalLog[k]) =>
              /\ goalLog[k].after.status = "completed"
              /\ goalLog[k].after.completedAt # Unset
    /\ (/\ Len(goalLog) = 2
        /\ Reaching(goalLog[1])
        /\ goalLog[2].op = "removeContribution"
        /\ goalLog[2].cid = goalLog[1].cid) =>
           /\ goalLog[2].after.currentAmount = goalLog[1].before[1].currentAmount
           /\ goalLog[2].after.status = "active"
           /\ goalLog[2].after.completedAt = Unset

\* Target 1000 with 900 saved: 150 completes the goal, removing it reopens.
C19_Witness ==
    /\ Len(goalLog) = 2
    /\ Reaching(goalLog[1])
    /\ goalLog[1].before[1].targetAmount = 1000
    /\ goalLog[1].before[1].currentAmount = 900
    /\ goalLog[1].after.currentAmount = 1050
    /\ goalLog[2].op = "removeContribution"
    /\ goalLog[2].cid = goalLog[1].cid
    /\ goalLog[2].after.currentAmount = 900

\* C20: no persisted goal is active while its currentAmount has reached
\* its targetAmount.
C20_NeverActiveAtTarget ==
    \A id \in DOMAIN goals :
        ~(goals[id].status = "active"
          /\ goals[id].currentAmount >= goals[id].targetAmount)

\* The status route asked for active on a goal at its target, and the
\* goal was saved as completed.
C20_Witness ==
    \E k \in DOMAIN goalLog :
        /\ goalLog[k].op = "status"
        /\ goalLog[k].status = "active"
        /\ goalLog[k].before[1].status = "paused"
        /\ goalLog[k].after.currentAmount >= goalLog[k].after.targetAmount
        /\ goalLog[k].after.status = "completed"

(***************************************************************************)
(* Properties of the budget windows (SpecBudget)                          *)
(***************************************************************************)
\* Two budgets whose windows share a day.
WindowsOverlap(a, b) == a.startDate <= b.endDate /\ b.startDate <= a.endDate

\* C29: no two active budgets of the same owner and category have
\* overlapping windows.
C29_ActiveBudgetsDisjoint ==
    \A a, b \in DOMAIN budgets :
        (/\ a # b
         /\ budgets[a].isActive /\ budgets[b].isActive
         /\ budgets[a].userId = budgets[b].userId
         /\ budgets[a].categoryId = budgets[b].categoryId) =>
            ~WindowsOverlap(budgets[a], budgets[b])

(***************************************************************************)
(* Properties of the execution counters (Spec)                            *)
(***************************************************************************)
\* The transactions of the collection that execute made from definition id.
Materialized(txs, id) == { i \in DOMAIN txs : txs[i].origin = id }

Latest(S) == CHOOSE i \in S : \A j \in S : j <= i

\* executionCount counts the transactions made from the definition, and
\* lastExecution is the date of the latest of them.
CountsAgree(recs, txs, id) ==
    /\ recs[id].executionCount = Cardinality(Materialized(txs, id))
    /\ recs[id].lastExecution =
           IF Materialized(txs, id) = {} THEN Unset
           ELSE Some(txs[Latest(Materialized(txs, id))].date)

PassSucceeded(log) == \A k \in DOMAIN log : log[k].outcome = "ok"

\* C25: a new definition has executionCount 0 and no lastExecution, and
\* every step that ends in a pass without a failed save keeps, for each
\* definition, executionCount equal to the number of transactions made
\* from it and lastExecution equal to the date of the latest of them.
C25_CountAndLastExecution ==
    [][PassSucceeded(passLog') =>
          \A id \in DOMAIN recurrings' :
              IF id \in DOMAIN recurrings
              THEN CountsAgree(recurrings, transactions, id) =>
                       CountsAgree(recurrings', transactions', id)
              ELSE CountsAgree(recurrings', transactions', id)]_vars

\* Two successful passes made two transactions from one definition; the
\* second one is dated 2024-02-02.
C25_Witness ==
    /\ passLog # <<>>
    /\ PassSucceeded(passLog)
    /\ \E id \in DOMAIN recurrings :
          /\ Cardinality(Materialized(transactions, id)) = 2
          /\ recurrings[id].executionCount = 2
          /\ recurrings[id].lastExecution = Some(MakeDate(2024, 1, 2))
          /\ transactions[2].date = MakeDate(2024, 1, 2)

\* C26: a definition with maxExecutions n has at most n transactions made
\* from it, and its executionCount is at most n.
C26_CapBoundsMaterialized ==
    \A id \in DOMAIN recurrings :
        recurrings[id].maxExecutions # Unset =>
            /\ Cardinality(Materialized(transactions, id)) <=
                   recurrings[id].maxExecutions[1]
            /\ recurrings[id].executionCount <= recurrings[id].maxExecutions[1]

(***************************************************************************)
(* Further properties of the goals (SpecGoal)                              *)
(***************************************************************************)
\* C30: in every persisted goal, completedAt is set exactly when status is
\* completed.
C30_CompletedAtIffCompleted ==
    \A id \in DOMAIN goals :
        goals[id].completedAt # Unset <=> goals[id].status = "completed"

\* The fields of a goal that the contribution ledger maintains.
Ledger(goal) ==
    << goal.contributions, goal.currentAmount, goal.lastContribution,
       goal.status, goal.completedAt >>

\* The request was answered with an error and the goal's ledger is as it
\* was.
RejectedUnchanged(id) ==
    /\ goalReply' \notin {"", "ok"}
    /\ Ledger(goals'[id]) = Ledger(goals[id])

\* C21: a contribution of a non-positive amount or to a goal that is not
\* active, and the removal of a contribution id that is not in the goal,
\* are answered with an error (the method's own message for the inactive
\* goal and the missing id) and leave contributions, currentAmount,
\* lastContribution, status and completedAt unchanged.
C21_RejectedLeavesLedger ==
    [][\A user \in Users, id \in GoalIds :
          /\ \A amount \in ContributionAmounts :
                /\ (GoalContribute(user, id, amount) /\ amount <= 0) =>
                       RejectedUnchanged(id)
                /\ (/\ GoalContribute(user, id, amount)
                    /\ amount > 0
                    /\ goals[id].status # "active") =>
                       /\ RejectedUnchanged(id)
                       /\ goalReply' =
                              "Meta deve estar ativa para receber contribuições"
          /\ \A cid \in 1..MaxContributions :
                (/\ GoalRemoveContribution(user, id, cid)
                 /\ \A k \in DOMAIN goals[id].contributions :
                        goals[id].contributions[k].id # cid) =>
                    /\ RejectedUnchanged(id)
                    /\ goalReply' = "Contribuição não encontrada"]_vars

\* A contribution to a paused goal that holds one contribution was
\* refused.
C21_Witness ==
    /\ goalReply = "Meta deve estar ativa para receber contribuições"
    /\ "g1" \in DOMAIN goals
    /\ goals["g1"].status = "paused"
    /\ Len(goals["g1"].contributions) = 1

(***************************************************************************)
(* Properties of the month count (SpecMonths)                              *)
(***************************************************************************)
FromJan15ToMar10 ==
    /\ paceNow = MakeDate(2024, 0, 15)
    /\ paceTarget = MakeDate(2024, 2, 10)
    /\ paceCreate # Unset

\* C23 as stated: the month count from 2024-01-15 to 2024-03-10 is 1.
C23_JanToMarIsOne == FromJan15ToMar10 => paceCreate = Some(1)

\* C23, amended: the month count from 2024-01-15 to 2024-03-10 is 2, the
\* two months from January to March with no month added for the day.
C23_JanToMarIsTwo == FromJan15ToMar10 => paceCreate = Some(2)

C23_Witness == FromJan15ToMar10

\* The count of the claim, from the calendar fields of the two dates.
MonthsBetween(from, to) ==
    Max(1, (CivilFromDays(to).year - CivilFromDays(from).year) * 12
               + (CivilFromDays(to).month - CivilFromDays(from).month)
               + (IF CivilFromDays(to).date > CivilFromDays(from).date
                  THEN 1 ELSE 0))

\* C24: the month count is max(1, year difference * 12 + month difference
\* + 1 if the target day is after the clock's day); it is at least 1, it is
\* 1 from a date to itself, and creation and update compute the same count.
C24_MonthCount ==
    /\ paceCreate # Unset =>
          /\ paceCreate[1] = MonthsBetween(paceNow, paceTarget)
          /\ paceCreate[1] >= 1
          /\ paceNow = paceTarget => paceCreate[1] = 1
    /\ paceUpdate # Unset =>
          /\ paceUpdate[1] = MonthsBetween(paceNow, paceTarget)
          /\ paceUpdate[1] >= 1
          /\ paceNow = paceTarget => paceUpdate[1] = 1
    /\ (paceCreate # Unset /\ paceUpdate # Unset) => paceCreate = paceUpdate

\* Both routes computed the count for a target date before the clock, where
\* the floor applies, and for a target day after the clock's day.
C24_Witness ==
    /\ paceCreate # Unset
    /\ paceUpdate # Unset
    /\ \/ paceTarget < paceNow /\ paceCreate = Some(1)
       \/ /\ paceNow = MakeDate(2024, 0, 15)
          /\ paceTarget = MakeDate(2024, 2, 20)
          /\ paceCreate = Some(3)

(***************************************************************************)
(* Properties of ownership (SpecOwner)                                     *)
(***************************************************************************)
\* The transactions and the recurring definitions that user owns.
OwnedTransactions(txs, user) ==
    { <<i, txs[i]>> : i \in { j \in DOMAIN txs : txs[j].userId = user } }

OwnedRecurrings(recs, user) ==
    { <<id, recs[id]>> : id \in { r \in DOMAIN recs : recs[r].userId = user } }

\* A request of user on one of the routes.
RequestOf(user) ==
    \/ TxCreate(user, PostedTx)
    \/ \E i \in 1..MaxTx, body \in OwnerTxBodies : TxUpdate(user, i, body)
    \/ \E i \in 1..MaxTx : TxDelete(user, i)
    \/ \E id \in RecurringIds : Create(user, id, Body(100, Daily, Unset, Unset))
    \/ \E id \in RecurringIds, patch \in RecurringPatches :
          RecurringUpdate(user, id, patch)

\* C22: a request of user a leaves the set of transactions and recurring
\* definitions owned by another user b, and all their fields, unchanged.
C22_OwnRecordsOnly ==
    [][\A a \in Users, b \in Users :
          (a # b /\ RequestOf(a)) =>
              /\ OwnedTransactions(transactions', b) =
                     OwnedTransactions(transactions, b)
              /\ OwnedRecurrings(recurrings', b) = OwnedRecurrings(recurrings, b)]_vars

(***************************************************************************)
(* Properties of two execute requests in flight (SpecExecuteRace)          *)
(***************************************************************************)
\* C27: when both requests have answered, no two transactions were made
\* from one definition for one date, and the executionCount of each
\* definition (0 before the requests) is the number of transactions made
\* from it.
C27_ConcurrentExecuteOncePerDate ==
    (\A r \in DOMAIN requests : requests[r].pc = "done") =>
        \A id \in DOMAIN recurrings :
            /\ \A i, j \in Materialized(transactions, id) :
                   transactions[i].date = transactions[j].date => i = j
            /\ recurrings[id].executionCount =
                   Cardinality(Materialized(transactions, id))

(***************************************************************************)
(* Properties of two contribute requests in flight (SpecContributeRace)    *)
(***************************************************************************)
\* C28: when both requests have succeeded, the goal holds both
\* contributions, and its currentAmount is the sum of the amounts of its
\* contributions if that was so in the document each request loaded.
C28_ConcurrentContributionsAdd ==
    (\A r \in DOMAIN requests : requests[r].pc = "done") =>
        \A id \in DOMAIN goals :
            /\ Len(goals[id].contributions) = Cardinality(DOMAIN requests)
            /\ (\A r \in DOMAIN requests :
                    requests[r].doc[1].currentAmount
                        = SumContributions(requests[r].doc[1].contributions)) =>
                   goals[id].currentAmount =
                       SumContributions(goals[id].contributions)

====
